---------------------------- MODULE Spec2Model ----------------------------
(***************************************************************************)
(* State-machine model of the persona ("character") feature of the web     *)
(* client (web/src/personas.ts, web/src/compose_persona.ts, the "My        *)
(* characters" settings panel), of the Theater dialogue header, and of the *)
(* server-side pieces those clients talk to (persona CRUD, the             *)
(* bot_interactions queue worker).  The server-side pieces are not part of *)
(* the source tree at hand and are modelled from the specification.        *)
(***************************************************************************)
EXTENDS Integers, Sequences, FiniteSets, TLC

(***************************************************************************)
(* Bounds of the model.                                                    *)
(***************************************************************************)
MaxPersonaId == 2      \* persona ids the server hands out: 1..MaxPersonaId
MaxInFlight == 1       \* persona events queued for the client at one time
MaxOnce == 1           \* one-time callbacks narrow changes may leave registered

Names == {"Aragorn", "Frodo"}
Streams == {1}

(***************************************************************************)
(* JavaScript null / undefined.  Persona ids and stream ids are database   *)
(* ids (>= 1), so 0 is free to stand for "no id".                          *)
(***************************************************************************)
Null == 0
Undefined == 0
Yourself == "Yourself"

PersonaIds == 1..MaxPersonaId

VARIABLES
    \* ---- web/src/personas.ts (module state) ----
    my_personas,                 \* MyPersona[]: sequence of [id, name]
    my_personas_fetched,
    my_personas_pending,
    realm_personas_fetched,
    realm_personas_pending,
    compose_persona_by_stream,   \* Map<number, number|null>: function on its key set
    current_compose_persona_id,
    change_callbacks,            \* Set<callback>, kept in insertion order
    request_cb,                  \* callback captured by the in-flight GET /json/users/me/personas
    \* ---- compose box (DOM and compose_state) ----
    selector_visible,            \* #compose-persona-selector shown / hidden
    selector_name,               \* text of .persona-name in the selector button
    using_persona,               \* class "using-persona" on the button
    compose_stream,              \* compose_state.stream_id()
    \* ---- "My characters" settings panel ----
    loaded,
    list_widget,                 \* rows of #my_characters_table
    dialog_error,                \* text of #dialog_error ("" when not shown)
    form_name,                   \* value of #character-name in the last dialog
    form_id,                     \* value of #character-id in the last dialog (Null: empty)
    \* ---- the page's main thread ----
    hung,                        \* a handler is spinning inside notify_change and never returns
    last_op,                     \* the handler that ran last: "event_add", "event_update",
                                 \* "event_remove", "fetch" (a response handler) or "ui"
    did_reset,                   \* the "reset to yourself" branch the last handler took last:
                                 \* "event" (handle_persona_event), "display"
                                 \* (update_selector_display) or "none"
    display_updated,             \* the last handler ran update_selector_display
    emptied_by_remove,           \* a remove event emptied my_personas, and it is still empty
    \* ---- server: persona table of the user, and what is on the wire ----
    server_personas,
    next_persona_id,
    my_response,                 \* response of GET /json/users/me/personas once the server has answered
    client_events,               \* persona events queued for this client, in order
    \* ---- bot_interactions pipeline: producer, queue, worker, bot ----
    interaction_queue,           \* events waiting for the worker, oldest first
    next_interaction_id,
    entered,                     \* what the user submitted, by interaction id
    failures,                    \* failed delivery attempts, by interaction id
    dropped,                     \* interaction ids logged as undeliverable
    bot_requests,                \* bodies of the POSTs the bot received, in order
    responses,                   \* responses the bot sent, by interaction id
    accepted,                    \* responses the server accepted, by interaction id
    consumed,                    \* interaction ids already answered
    \* ---- a topic's messages: server, and the list a page renders ----
    topic_messages,              \* messages of the topic as stored, in send order
    rows,                        \* rendered rows: message id, shown name, header shown
    headers_before_reload,       \* sender headers on screen when the page was reloaded
    reloaded,                    \* the page was reloaded and nothing was sent since
    \* ---- the user at the compose box ----
    selected_on,                 \* the selection the user made last, by compose stream
    last_ui,                     \* the user's last step at the compose box
    \* ---- web/src/personas.ts: the realm persona cache and its request ----
    realm_personas,              \* Persona[]
    realm_response,              \* response of GET /json/realm/personas once the server has answered
    realm_failed,                \* the realm request that completed last ended in error()
    \* ---- bot commands: registry, "bot_commands" events, compose typeahead ----
    bot_commands,                \* names of the commands registered on the server
    command_events,              \* per connected client: "bot_commands" events not yet delivered
    typeahead_commands,          \* per connected client: commands the client knows
    command_mode,                \* per connected client: command compose state
    \* ---- web/src/theater: Theater.svelte, PersonaPicker.svelte, Prompter ----
    page_state_data,             \* pageParams.state_data, read when the Theater mounts
    mounted,                     \* "no", "loading" (onMount awaits the personas), "done"
    load_in_flight,              \* which api.fetchPersonas() call is awaited: "none", "mount", "retry"
    last_load,                   \* how the load that completed last ended: "none", "ok", "failed"
    theater_personas,            \* the personas store
    personaError,
    polling,                     \* what initializeEventHandler was called with
    activePersonaId,             \* the activePersonaId store
    isOpen,                      \* PersonaPicker
    focusedIndex,                \* PersonaPicker
    content,                     \* Prompter textarea
    isSending,
    send_request,                \* the api.sendMessage request in flight
    selected_at_send,            \* activePersonaId when sendMessage was called
    sendError,
    theater_messages,            \* messages of the open scene, as the server stored them
    \* ---- whisper recipient input (unnamed/part_003) ----
    current_stream_id,           \* stream context of the whisper input, or Undefined
    whisper_items,               \* widget.items(): the pills, in order
    last_whisper                 \* the user's last step at the whisper input

persona_vars ==
    <<my_personas, my_personas_fetched, my_personas_pending, realm_personas_fetched,
      realm_personas_pending, compose_persona_by_stream, current_compose_persona_id,
      change_callbacks, request_cb, selector_visible, selector_name, using_persona,
      compose_stream, loaded, list_widget, dialog_error, hung, last_op, did_reset,
      display_updated, emptied_by_remove, form_name, form_id,
      server_personas, next_persona_id, my_response, client_events>>

pipeline_vars ==
    <<interaction_queue, next_interaction_id, entered, failures, dropped,
      bot_requests, responses, accepted, consumed>>

message_vars == <<topic_messages, rows, headers_before_reload, reloaded>>

compose_ui_vars == <<selected_on, last_ui>>

\* State of the parts added to the model after the first three.
realm_vars == <<realm_personas, realm_response, realm_failed>>

command_vars == <<bot_commands, command_events, typeahead_commands, command_mode>>

theater_vars ==
    <<page_state_data, mounted, load_in_flight, last_load, theater_personas,
      personaError, polling, activePersonaId, isOpen, focusedIndex, content,
      isSending, send_request, selected_at_send, sendError, theater_messages>>

whisper_vars == <<current_stream_id, whisper_items, last_whisper>>

later_vars == <<compose_ui_vars, realm_vars, command_vars, theater_vars, whisper_vars>>

other_vars == <<pipeline_vars, message_vars, later_vars>>

vars == <<persona_vars, pipeline_vars, message_vars, later_vars>>

-----------------------------------------------------------------------------
(***************************************************************************)
(* Sequence helpers.                                                       *)
(***************************************************************************)
\* Array.prototype.filter((p) => p.id !== id)
RECURSIVE WithoutId(_, _)
WithoutId(s, id) ==
    IF s = <<>> THEN <<>>
    ELSE IF Head(s).id # id THEN <<Head(s)>> \o WithoutId(Tail(s), id)
         ELSE WithoutId(Tail(s), id)

RemoveAt(s, i) == [j \in 1..(Len(s) - 1) |-> IF j < i THEN s[j] ELSE s[j + 1]]

\* Array.prototype.findIndex, 0 standing for JavaScript's -1
FindIndex(s, id) ==
    IF \E i \in 1..Len(s) : s[i].id = id
    THEN CHOOSE i \in 1..Len(s) : s[i].id = id /\ \A j \in 1..(i - 1) : s[j].id # id
    ELSE 0

IdsOf(s) == {s[i].id : i \in 1..Len(s)}
NamesOf(s) == {s[i].name : i \in 1..Len(s)}

-----------------------------------------------------------------------------
(***************************************************************************)
(* The client state the handlers of personas.ts / compose_persona.ts read  *)
(* and write, as one record, so that a handler and the functions it calls  *)
(* compose as operators on it.                                             *)
(***************************************************************************)
Client ==
    [my_personas |-> my_personas,
     fetched |-> my_personas_fetched,
     pending |-> my_personas_pending,
     realm_fetched |-> realm_personas_fetched,
     sticky |-> compose_persona_by_stream,
     cur |-> current_compose_persona_id,
     callbacks |-> change_callbacks,
     request_cb |-> request_cb,
     visible |-> selector_visible,
     name |-> selector_name,
     using |-> using_persona,
     stream |-> compose_stream,
     loaded |-> loaded,
     list |-> list_widget,
     hung |-> FALSE,
     did_reset |-> "none",
     displayed |-> FALSE]

\* Callbacks: the two module-level on_personas_changed functions, and the
\* closures fetch_my_personas wraps around a caller's callback.
NoCallback == [cb |-> "none", stream |-> Undefined]
UfsCallback(stream_id) == [cb |-> "ufs", stream |-> stream_id]
PopulateCallback == [cb |-> "populate", stream |-> Undefined]
ComposeChanged == [kind |-> "compose", cb |-> "none", stream |-> Undefined]
SettingsChanged == [kind |-> "settings", cb |-> "none", stream |-> Undefined]
OneTime(c) == [kind |-> "once", cb |-> c.cb, stream |-> c.stream]

\* Set.prototype.add / delete for the two named functions (a Set holds a
\* function object once); every one-time closure is a new object.
RegisterChangeCallback(st, c) ==
    IF c.kind # "once" /\ \E i \in 1..Len(st.callbacks) : st.callbacks[i] = c
    THEN st
    ELSE [st EXCEPT !.callbacks = Append(@, c)]

RECURSIVE WithoutCallback(_, _)
WithoutCallback(s, c) ==
    IF s = <<>> THEN <<>>
    ELSE IF Head(s) # c THEN <<Head(s)>> \o WithoutCallback(Tail(s), c)
         ELSE WithoutCallback(Tail(s), c)

UnregisterChangeCallback(st, c) == [st EXCEPT !.callbacks = WithoutCallback(@, c)]

\* personas.set_compose_persona_id(persona_id, stream_id?)
SetComposePersonaId(st, persona_id, stream_id) ==
    IF stream_id # Undefined
    THEN [st EXCEPT !.cur = persona_id,
                    !.sticky = [s \in (DOMAIN @) \cup {stream_id} |->
                                   IF s = stream_id THEN persona_id ELSE @[s]]]
    ELSE [st EXCEPT !.cur = persona_id]

\* personas.get_sticky_persona_for_stream: Map.get(stream_id) ?? null
GetStickyPersonaForStream(st, stream_id) ==
    IF stream_id \in DOMAIN st.sticky THEN st.sticky[stream_id] ELSE Null

ShowSelector(st) == [st EXCEPT !.visible = TRUE]
HideSelector(st) == [st EXCEPT !.visible = FALSE]

\* compose_persona.set_current_persona_id and update_selector_display call
\* each other.
RECURSIVE UpdateSelectorDisplay(_)
SetCurrentPersonaId(st, persona_id) ==
    UpdateSelectorDisplay(SetComposePersonaId(st, persona_id, st.stream))

\* (mutant) the "persona no longer exists" branch forgets to reset
UpdateSelectorDisplayKeepsMissing(st) ==
    IF st.cur = Null
    THEN [st EXCEPT !.name = Yourself, !.using = FALSE, !.displayed = TRUE]
    ELSE LET index == FindIndex(st.my_personas, st.cur) IN
         IF index # 0
         THEN [st EXCEPT !.name = st.my_personas[index].name, !.using = TRUE,
                         !.displayed = TRUE]
         ELSE [st EXCEPT !.displayed = TRUE]

UpdateSelectorDisplay(st) ==
    IF st.cur = Null
    THEN [st EXCEPT !.name = Yourself, !.using = FALSE, !.displayed = TRUE]
    ELSE LET index == FindIndex(st.my_personas, st.cur) IN
         IF index # 0
         THEN [st EXCEPT !.name = st.my_personas[index].name, !.using = TRUE,
                         !.displayed = TRUE]
         ELSE \* Persona no longer exists, reset to yourself
              SetCurrentPersonaId([st EXCEPT !.did_reset = "display"], Null)

\* my_characters settings: populate_list
PopulateList(st) ==
    IF ~st.loaded THEN st ELSE [st EXCEPT !.list = st.my_personas]

\* fetch_my_personas(callback), update_for_stream(stream_id) and the
\* closure () => update_for_stream(stream_id) call each other.
RECURSIVE UpdateForStream(_, _)
RunCallback(st, c) ==
    IF c.cb = "ufs" THEN UpdateForStream(st, c.stream)
    ELSE IF c.cb = "populate" THEN PopulateList(st)
    ELSE st

FetchMyPersonas(st, callback) ==
    IF st.fetched THEN RunCallback(st, callback)
    ELSE IF st.pending
    THEN IF callback # NoCallback
         THEN RegisterChangeCallback(st, OneTime(callback))
         ELSE st
    ELSE [st EXCEPT !.pending = TRUE, !.request_cb = callback]

\* (mutant) the current selection stored as the stream's sticky selection
\* instead of the sticky selection restored
UpdateForStreamStoresCurrent(st, stream_id) ==
    IF stream_id = Undefined
    THEN IF Len(st.my_personas) > 0 THEN ShowSelector(st) ELSE HideSelector(st)
    ELSE IF ~st.fetched
    THEN FetchMyPersonas(st, UfsCallback(stream_id))
    ELSE IF Len(st.my_personas) = 0
    THEN HideSelector(st)
    ELSE LET shown == ShowSelector(st)
         IN UpdateSelectorDisplay(SetComposePersonaId(shown, shown.cur, stream_id))

UpdateForStream(st, stream_id) ==
    IF stream_id = Undefined
    THEN IF Len(st.my_personas) > 0 THEN ShowSelector(st) ELSE HideSelector(st)
    ELSE IF ~st.fetched
    THEN FetchMyPersonas(st, UfsCallback(stream_id))
    ELSE IF Len(st.my_personas) = 0
    THEN HideSelector(st)
    ELSE LET shown == ShowSelector(st)
             sticky_persona == GetStickyPersonaForStream(shown, stream_id)
             restored == IF sticky_persona # Null
                         THEN SetComposePersonaId(shown, sticky_persona, stream_id)
                         ELSE shown
         IN UpdateSelectorDisplay(restored)

\* compose_persona.on_personas_changed
ComposeOnPersonasChanged(st) ==
    UpdateForStream(UpdateSelectorDisplay(st), st.stream)

\* my_characters settings: on_personas_changed
SettingsOnPersonasChanged(st) ==
    IF st.loaded THEN PopulateList(st) ELSE st

(***************************************************************************)
(* notify_change: for (const callback of change_callbacks) callback().     *)
(* A Set iterator visits entries added while it runs and skips entries     *)
(* deleted before it reaches them.  A one-time callback runs the wrapped   *)
(* callback and then deletes itself, so the entry after it moves into its  *)
(* position.  The loop is cut after NotifyFuel callbacks, more than any    *)
(* terminating run invokes, and the handler is then recorded as hung.      *)
(***************************************************************************)
NotifyFuel == 2 * (MaxOnce + 3)

RECURSIVE NotifyLoop(_, _, _)
NotifyLoop(st, i, fuel) ==
    IF i > Len(st.callbacks) THEN st
    ELSE IF fuel = 0 THEN [st EXCEPT !.hung = TRUE]
    ELSE LET c == st.callbacks[i] IN
         IF c.kind = "once"
         THEN LET ran == RunCallback(st, c) IN
              NotifyLoop([ran EXCEPT !.callbacks = RemoveAt(@, i)], i, fuel - 1)
         ELSE IF c.kind = "compose"
         THEN NotifyLoop(ComposeOnPersonasChanged(st), i + 1, fuel - 1)
         ELSE NotifyLoop(SettingsOnPersonasChanged(st), i + 1, fuel - 1)

NotifyChange(st) == NotifyLoop(st, 1, NotifyFuel)


-----------------------------------------------------------------------------
(***************************************************************************)
(* Server side of the persona resource (persona CRUD under                 *)
(* /json/users/me/personas), modelled from the specification: persona      *)
(* names are unique per owning user, a duplicate name is a validation      *)
(* error, and every change is announced to the user's clients by an event. *)
(***************************************************************************)
NoError == ""
DuplicateNameError == "You already have a persona with this name"
NotFoundError == "Invalid persona"

PersonaEvent(op, persona, persona_id) ==
    [op |-> op, persona |-> persona, persona_id |-> persona_id]
NoPersona == [id |-> Null, name |-> ""]

ServerState == [personas |-> server_personas, next_id |-> next_persona_id,
                events |-> client_events, error |-> NoError]

NameTaken(personas, name, except_id) ==
    \E i \in 1..Len(personas) : personas[i].name = name /\ personas[i].id # except_id

\* POST /json/users/me/personas
ServerCreatePersona(sv, name) ==
    IF NameTaken(sv.personas, name, Null)
    THEN [sv EXCEPT !.error = DuplicateNameError]
    ELSE LET persona == [id |-> sv.next_id, name |-> name] IN
         [sv EXCEPT !.personas = Append(@, persona),
                    !.next_id = @ + 1,
                    !.events = Append(@, PersonaEvent("add", persona, Null))]

\* (mutant) a rename that does not look at the other personas' names
ServerUpdatePersonaUnchecked(sv, persona_id, name) ==
    LET index == FindIndex(sv.personas, persona_id) IN
    IF index = 0 THEN [sv EXCEPT !.error = NotFoundError]
    ELSE LET persona == [id |-> persona_id, name |-> name] IN
         [sv EXCEPT !.personas[index] = persona,
                    !.events = Append(@, PersonaEvent("update", persona, Null))]

\* PATCH /json/users/me/personas/{id}
ServerUpdatePersona(sv, persona_id, name) ==
    LET index == FindIndex(sv.personas, persona_id) IN
    IF index = 0 THEN [sv EXCEPT !.error = NotFoundError]
    ELSE IF NameTaken(sv.personas, name, persona_id)
    THEN [sv EXCEPT !.error = DuplicateNameError]
    ELSE LET persona == [id |-> persona_id, name |-> name] IN
         [sv EXCEPT !.personas[index] = persona,
                    !.events = Append(@, PersonaEvent("update", persona, Null))]

\* DELETE /json/users/me/personas/{id}
ServerDeletePersona(sv, persona_id) ==
    IF FindIndex(sv.personas, persona_id) = 0
    THEN [sv EXCEPT !.error = NotFoundError]
    ELSE [sv EXCEPT !.personas = WithoutId(@, persona_id),
                    !.events = Append(@, PersonaEvent("remove", NoPersona, persona_id))]

-----------------------------------------------------------------------------
(***************************************************************************)
(* Writing a handler's result back to the variables.                       *)
(***************************************************************************)
CommitClient(st, op) ==
    /\ my_personas' = st.my_personas
    /\ my_personas_fetched' = st.fetched
    /\ my_personas_pending' = st.pending
    /\ realm_personas_fetched' = st.realm_fetched
    /\ compose_persona_by_stream' = st.sticky
    /\ current_compose_persona_id' = st.cur
    /\ change_callbacks' = st.callbacks
    /\ request_cb' = st.request_cb
    /\ selector_visible' = st.visible
    /\ selector_name' = st.name
    /\ using_persona' = st.using
    /\ loaded' = st.loaded
    /\ list_widget' = st.list
    /\ hung' = st.hung
    /\ did_reset' = st.did_reset
    /\ display_updated' = st.displayed
    /\ last_op' = op
    /\ emptied_by_remove' =
          IF st.my_personas # <<>> THEN FALSE
          ELSE IF op = "event_remove" THEN TRUE
          ELSE emptied_by_remove

CommitServer(sv) ==
    /\ server_personas' = sv.personas
    /\ next_persona_id' = sv.next_id
    /\ client_events' = sv.events
    /\ dialog_error' = sv.error

OnceCount == Cardinality({i \in 1..Len(change_callbacks) : change_callbacks[i].kind = "once"})

(***************************************************************************)
(* The state after the modules are loaded and compose_persona.initialize() *)
(* has run: on_personas_changed is registered and the request for the      *)
(* user's personas is in flight.  The selector starts hidden, showing      *)
(* "Yourself".                                                             *)
(***************************************************************************)
PersonaInit ==
    /\ my_personas = <<>>
    /\ my_personas_fetched = FALSE
    /\ my_personas_pending = TRUE
    /\ realm_personas_fetched = FALSE
    /\ realm_personas_pending = FALSE
    /\ compose_persona_by_stream = <<>>
    /\ current_compose_persona_id = Null
    /\ change_callbacks = <<ComposeChanged>>
    /\ request_cb = NoCallback
    /\ selector_visible = FALSE
    /\ selector_name = Yourself
    /\ using_persona = FALSE
    /\ compose_stream = Undefined
    /\ loaded = FALSE
    /\ list_widget = <<>>
    /\ dialog_error = NoError
    /\ hung = FALSE
    /\ last_op = "ui"
    /\ did_reset = "none"
    /\ display_updated = FALSE
    /\ form_name = ""
    /\ form_id = Null
    /\ emptied_by_remove = FALSE
    /\ server_personas \in {<<>>, <<[id |-> 1, name |-> "Aragorn"]>>}
    /\ next_persona_id = Len(server_personas) + 1
    /\ my_response = [ready |-> FALSE, personas |-> <<>>]
    /\ client_events = <<>>

-----------------------------------------------------------------------------
(***************************************************************************)
(* personas.ts: handle_persona_event, applied to the next queued event.    *)
(***************************************************************************)
HandlePersonaEventOn(st, event) ==
    IF event.op = "add" /\ event.persona # NoPersona
    THEN NotifyChange([st EXCEPT !.my_personas = Append(@, event.persona),
                                 !.realm_fetched = FALSE])
    ELSE IF event.op = "update" /\ event.persona # NoPersona
    THEN LET index == FindIndex(st.my_personas, event.persona.id)
             updated == IF index # 0
                        THEN [st EXCEPT !.my_personas[index] = event.persona]
                        ELSE st
         IN NotifyChange([updated EXCEPT !.realm_fetched = FALSE])
    ELSE IF event.op = "remove" /\ event.persona_id # Null
    THEN NotifyChange([st EXCEPT
             !.my_personas = WithoutId(@, event.persona_id),
             !.cur = IF @ = event.persona_id THEN Null ELSE @,
             !.did_reset = IF st.cur = event.persona_id THEN "event" ELSE "none",
             !.realm_fetched = FALSE])
    ELSE st

HandlePersonaEvent ==
    /\ ~hung
    /\ UNCHANGED other_vars
    /\ client_events # <<>>
    /\ CommitClient(HandlePersonaEventOn(Client, Head(client_events)),
                    "event_" \o Head(client_events).op)
    /\ client_events' = Tail(client_events)
    /\ UNCHANGED <<realm_personas_pending, compose_stream, dialog_error, form_name, form_id,
                   server_personas, next_persona_id, my_response>>

(***************************************************************************)
(* personas.ts: the request of fetch_my_personas.  The server answers with *)
(* the personas the user owns at that moment; the client later runs        *)
(* success(raw_data) on that answer, or error().                           *)
(***************************************************************************)
ServerAnswerMyPersonas ==
    /\ ~hung
    /\ UNCHANGED other_vars
    /\ my_personas_pending
    /\ ~my_response.ready
    /\ my_response' = [ready |-> TRUE, personas |-> server_personas]
    /\ UNCHANGED <<my_personas, my_personas_fetched, my_personas_pending,
                   realm_personas_fetched, realm_personas_pending,
                   compose_persona_by_stream, current_compose_persona_id,
                   change_callbacks, request_cb, selector_visible, selector_name,
                   using_persona, compose_stream, loaded, list_widget, dialog_error,
                   hung, last_op, did_reset, display_updated, emptied_by_remove,
                   form_name, form_id, server_personas,
                   next_persona_id, client_events>>

FetchMySuccessOn(st, data) ==
    LET stored == [st EXCEPT !.my_personas = data,
                             !.fetched = TRUE,
                             !.pending = FALSE]
    IN NotifyChange(RunCallback(stored, st.request_cb))

FetchMyErrorOn(st) ==
    LET stored == [st EXCEPT !.my_personas = <<>>,
                             !.fetched = TRUE,
                             !.pending = FALSE]
    IN RunCallback(stored, st.request_cb)

FetchMySuccess ==
    /\ ~hung
    /\ UNCHANGED other_vars
    /\ my_personas_pending
    /\ my_response.ready
    /\ CommitClient(FetchMySuccessOn(Client, my_response.personas), "fetch")
    /\ my_response' = [ready |-> FALSE, personas |-> <<>>]
    /\ UNCHANGED <<realm_personas_pending, compose_stream, dialog_error, form_name, form_id,
                   server_personas, next_persona_id, client_events>>

FetchMyError ==
    /\ ~hung
    /\ UNCHANGED other_vars
    /\ my_personas_pending
    /\ CommitClient(FetchMyErrorOn(Client), "fetch")
    /\ my_response' = [ready |-> FALSE, personas |-> <<>>]
    /\ UNCHANGED <<realm_personas_pending, compose_stream, dialog_error, form_name, form_id,
                   server_personas, next_persona_id, client_events>>


(***************************************************************************)
(* compose_persona.ts: cycle_persona (the Ctrl+Shift+P hotkey).            *)
(***************************************************************************)
CyclePersonaOn(st) ==
    IF Len(st.my_personas) = 0 THEN st
    ELSE IF st.cur = Null
    THEN \* Currently "Yourself", switch to first persona
         SetCurrentPersonaId(st, st.my_personas[1].id)
    ELSE LET current_index == FindIndex(st.my_personas, st.cur) IN
         IF current_index = 0 \/ current_index = Len(st.my_personas)
         THEN SetCurrentPersonaId(st, Null)
         ELSE SetCurrentPersonaId(st, st.my_personas[current_index + 1].id)

CyclePersona ==
    /\ ~hung
    /\ UNCHANGED other_vars
    /\ CommitClient(CyclePersonaOn(Client), "ui")
    /\ UNCHANGED <<realm_personas_pending, compose_stream, dialog_error, form_name, form_id,
                   server_personas, next_persona_id, my_response, client_events>>

(***************************************************************************)
(* compose_persona.ts: the narrow_changed.zulip handler of initialize().   *)
(***************************************************************************)
NarrowChanged ==
    /\ ~hung
    /\ UNCHANGED other_vars
    /\ my_personas_fetched \/ compose_stream = Undefined \/ OnceCount < MaxOnce
    /\ CommitClient(UpdateForStream(Client, compose_stream), "ui")
    /\ UNCHANGED <<realm_personas_pending, compose_stream, dialog_error, form_name, form_id,
                   server_personas, next_persona_id, my_response, client_events>>

(***************************************************************************)
(* compose_state: the user points the compose box at a stream or at a      *)
(* direct message.  No persona code runs.                                  *)
(***************************************************************************)
SetComposeStream ==
    /\ ~hung
    /\ UNCHANGED other_vars
    /\ \E s \in Streams \cup {Undefined} :
          /\ s # compose_stream
          /\ compose_stream' = s
    /\ UNCHANGED <<my_personas, my_personas_fetched, my_personas_pending,
                   realm_personas_fetched, realm_personas_pending,
                   compose_persona_by_stream, current_compose_persona_id,
                   change_callbacks, request_cb, selector_visible, selector_name,
                   using_persona, loaded, list_widget, dialog_error, hung, last_op,
                   did_reset, display_updated, emptied_by_remove, form_name, form_id,
                   server_personas, next_persona_id,
                   my_response, client_events>>

(***************************************************************************)
(* "My characters" settings panel: set_up, reset, and the three dialogs.   *)
(***************************************************************************)
SetUpOn(st) ==
    FetchMyPersonas(RegisterChangeCallback([st EXCEPT !.loaded = TRUE], SettingsChanged),
                    PopulateCallback)

SetUp ==
    /\ ~hung
    /\ UNCHANGED other_vars
    /\ ~loaded
    /\ my_personas_fetched \/ OnceCount < MaxOnce
    /\ CommitClient(SetUpOn(Client), "ui")
    /\ UNCHANGED <<realm_personas_pending, compose_stream, dialog_error, form_name, form_id,
                   server_personas, next_persona_id, my_response, client_events>>

ResetOn(st) ==
    UnregisterChangeCallback([st EXCEPT !.loaded = FALSE, !.list = <<>>], SettingsChanged)

Reset ==
    /\ ~hung
    /\ UNCHANGED other_vars
    /\ loaded
    /\ CommitClient(ResetOn(Client), "ui")
    /\ UNCHANGED <<realm_personas_pending, compose_stream, dialog_error, form_name, form_id,
                   server_personas, next_persona_id, my_response, client_events>>

\* (mutant) the test of #character-id inverted
SubmitCharacterFormInverted(sv, name, persona_id) ==
    IF persona_id = Null
    THEN ServerUpdatePersona(sv, persona_id, name)
    ELSE ServerCreatePersona(sv, name)

\* submit_character_form: an empty #character-id creates, otherwise updates;
\* dialog_widget.submit_api_request shows a failure in #dialog_error.
SubmitCharacterForm(sv, name, persona_id) ==
    IF persona_id # Null
    THEN ServerUpdatePersona(sv, persona_id, name)
    ELSE ServerCreatePersona(sv, name)

UnchangedClient ==
    UNCHANGED <<my_personas, my_personas_fetched, my_personas_pending,
                realm_personas_fetched, realm_personas_pending,
                compose_persona_by_stream, current_compose_persona_id,
                change_callbacks, request_cb, selector_visible, selector_name,
                using_persona, compose_stream, loaded, list_widget, hung,
                did_reset, display_updated, emptied_by_remove, my_response>>

AddCharacter ==
    /\ ~hung
    /\ UNCHANGED other_vars
    /\ loaded
    /\ Len(client_events) < MaxInFlight
    /\ \E name \in Names :
          /\ NameTaken(server_personas, name, Null) \/ next_persona_id <= MaxPersonaId
          /\ form_name' = name
          /\ form_id' = Null
          /\ CommitServer(SubmitCharacterForm(ServerState, name, Null))
    /\ last_op' = "ui"
    /\ UnchangedClient

\* open_edit_character_modal returns early for a persona the cache has not
EditCharacter ==
    /\ ~hung
    /\ UNCHANGED other_vars
    /\ loaded
    /\ Len(client_events) < MaxInFlight
    /\ \E persona_id \in IdsOf(list_widget), name \in Names :
          /\ FindIndex(my_personas, persona_id) # 0
          /\ form_name' = name
          /\ form_id' = persona_id
          /\ CommitServer(SubmitCharacterForm(ServerState, name, persona_id))
    /\ last_op' = "ui"
    /\ UnchangedClient

DeleteCharacter ==
    /\ ~hung
    /\ UNCHANGED other_vars
    /\ loaded
    /\ Len(client_events) < MaxInFlight
    /\ \E persona_id \in IdsOf(list_widget) :
          /\ FindIndex(my_personas, persona_id) # 0
          /\ CommitServer(ServerDeletePersona(ServerState, persona_id))
    /\ UNCHANGED <<form_name, form_id>>
    /\ last_op' = "ui"
    /\ UnchangedClient

(***************************************************************************)
(* The bot-interaction pipeline, modelled from the specification: a        *)
(* submitted command becomes one command_invocation event with a fresh     *)
(* interaction id; the queue is durable and ordered; the worker POSTs the  *)
(* oldest event to the bot's webhook; a failed attempt is retried up to    *)
(* the queue's retry policy and then logged and dropped; an attempt can    *)
(* fail after the bot has received the request.  The server accepts one    *)
(* response for an interaction id.                                         *)
(***************************************************************************)
MaxInteractions == 2   \* commands submitted
MaxRetries == 1        \* retries the queue's retry policy allows for one event

\* What a user can submit: a command name, its arguments, and who invokes it.
Submissions ==
    {[command |-> "testcmd", arguments |-> "hello world", user |-> "desdemona"],
     [command |-> "roll", arguments |-> "3", user |-> "iago"]}

InteractionEvent(id, command, arguments, user) ==
    [type |-> "command_invocation", command |-> command, arguments |-> arguments,
     interaction_id |-> id, user |-> user]

\* (mutant) a body built without the arguments
WebhookBodyNoArguments(event) ==
    [type |-> event.type, command |-> event.command, arguments |-> "",
     interaction_id |-> event.interaction_id, user |-> event.user]

\* Outgoing webhook contract: JSON body with type, command, arguments,
\* interaction_id, user.
WebhookBody(event) ==
    [type |-> event.type, command |-> event.command, arguments |-> event.arguments,
     interaction_id |-> event.interaction_id, user |-> event.user]

PostsFor(id) == {i \in 1..Len(bot_requests) : bot_requests[i].interaction_id = id}

PipelineInit ==
    /\ interaction_queue = <<>>
    /\ next_interaction_id = 1
    /\ entered = <<>>
    /\ failures = <<>>
    /\ dropped = {}
    /\ bot_requests = <<>>
    /\ responses = <<>>
    /\ accepted = <<>>
    /\ consumed = {}

\* The user sends a filled command from the compose box.
SubmitCommand ==
    /\ next_interaction_id <= MaxInteractions
    /\ \E submission \in Submissions :
          /\ interaction_queue' = Append(interaction_queue,
                InteractionEvent(next_interaction_id, submission.command,
                                 submission.arguments, submission.user))
          /\ entered' = Append(entered, submission)
    /\ next_interaction_id' = next_interaction_id + 1
    /\ failures' = Append(failures, 0)
    /\ responses' = Append(responses, 0)
    /\ accepted' = Append(accepted, 0)
    /\ UNCHANGED <<dropped, bot_requests, consumed>>
    /\ UNCHANGED <<persona_vars, message_vars, later_vars>>

\* The worker's POST of the oldest event succeeds.
DeliverOk ==
    /\ interaction_queue # <<>>
    /\ bot_requests' = Append(bot_requests, WebhookBody(Head(interaction_queue)))
    /\ interaction_queue' = Tail(interaction_queue)
    /\ UNCHANGED <<next_interaction_id, entered, failures, dropped, responses,
                   accepted, consumed>>
    /\ UNCHANGED <<persona_vars, message_vars, later_vars>>

\* (mutant) an event given up without being logged
AfterFailureUnlogged(id) ==
    IF failures[id] + 1 > MaxRetries
    THEN [queue |-> Tail(interaction_queue), dropped |-> dropped]
    ELSE [queue |-> interaction_queue, dropped |-> dropped]

\* The retry policy: what happens to the oldest event after one more
\* failed attempt.
AfterFailure(id) ==
    IF failures[id] + 1 > MaxRetries
    THEN [queue |-> Tail(interaction_queue), dropped |-> dropped \cup {id}]
    ELSE [queue |-> interaction_queue, dropped |-> dropped]

\* The worker's POST of the oldest event fails: the bot was not reached, or
\* it was reached and the attempt failed afterwards (a timeout).
DeliverFail ==
    /\ interaction_queue # <<>>
    /\ LET event == Head(interaction_queue)
           id == event.interaction_id
       IN /\ \E received \in BOOLEAN :
                bot_requests' = IF received
                                THEN Append(bot_requests, WebhookBody(event))
                                ELSE bot_requests
          /\ failures' = [failures EXCEPT ![id] = @ + 1]
          /\ interaction_queue' = AfterFailure(id).queue
          /\ dropped' = AfterFailure(id).dropped
    /\ UNCHANGED <<next_interaction_id, entered, responses, accepted, consumed>>
    /\ UNCHANGED <<persona_vars, message_vars, later_vars>>

\* (mutant) every response is accepted
AcceptResponseAlways(id) ==
    [accepted |-> [accepted EXCEPT ![id] = @ + 1], consumed |-> consumed \cup {id}]

\* The server's handling of a bot's response to an interaction.
AcceptResponse(id) ==
    IF id \in consumed
    THEN [accepted |-> accepted, consumed |-> consumed]
    ELSE [accepted |-> [accepted EXCEPT ![id] = @ + 1], consumed |-> consumed \cup {id}]

\* The bot answers a request it received, once per request.
BotRespond ==
    /\ \E id \in 1..Len(entered) :
          /\ responses[id] < Cardinality(PostsFor(id))
          /\ responses' = [responses EXCEPT ![id] = @ + 1]
          /\ accepted' = AcceptResponse(id).accepted
          /\ consumed' = AcceptResponse(id).consumed
    /\ UNCHANGED <<interaction_queue, next_interaction_id, entered, failures,
                   dropped, bot_requests>>
    /\ UNCHANGED <<persona_vars, message_vars, later_vars>>

NextPipeline ==
    \/ SubmitCommand
    \/ DeliverOk
    \/ DeliverFail
    \/ BotRespond

-----------------------------------------------------------------------------
(***************************************************************************)
(* One topic's messages.  The stored messages and the grouping of          *)
(* consecutive messages are modelled from the specification; whether a row *)
(* shows its sender header is Dialogue.svelte's condition.                 *)
(***************************************************************************)
MaxMessages == 4

\* The name a message is shown under: the persona's, or the sender's own.
CharacterName(persona_id) ==
    IF persona_id = Null THEN "Desdemona" ELSE "Persona " \o ToString(persona_id)

\* (mutant) the negation of isConsecutive lost
DialogueShowsHeaderWhenConsecutive(showSpeaker, isConsecutive) ==
    showSpeaker /\ isConsecutive

\* Dialogue.svelte: {#if showSpeaker && !isConsecutive} <header ...>
DialogueShowsHeader(showSpeaker, isConsecutive) ==
    showSpeaker /\ ~isConsecutive

\* A message continues the previous one when both were sent under the same
\* identity.
IsConsecutive(messages, i) ==
    /\ i > 1
    /\ messages[i].persona_id = messages[i - 1].persona_id

RenderRow(messages, i) ==
    [id |-> messages[i].id,
     name |-> messages[i].characterName,
     header |-> DialogueShowsHeader(TRUE, IsConsecutive(messages, i))]

RenderAll(messages) == [i \in 1..Len(messages) |-> RenderRow(messages, i)]

ShowsHeader(row) == row.header

\* The sender names on screen, top to bottom.
Headers(rendered) ==
    LET shown == SelectSeq(rendered, ShowsHeader)
    IN [i \in 1..Len(shown) |-> shown[i].name]

MessagesInit ==
    /\ topic_messages = <<>>
    /\ rows = <<>>
    /\ headers_before_reload = <<>>
    /\ reloaded = FALSE

\* A message is sent to the topic as oneself or as a persona, and arrives
\* in the open view as its last row.
SendMessage ==
    /\ Len(topic_messages) < MaxMessages
    /\ \E persona_id \in {Null} \cup PersonaIds :
          LET message == [id |-> Len(topic_messages) + 1,
                          persona_id |-> persona_id,
                          characterName |-> CharacterName(persona_id)]
              messages == Append(topic_messages, message)
          IN /\ topic_messages' = messages
             /\ rows' = Append(rows, RenderRow(messages, Len(messages)))
    /\ reloaded' = FALSE
    /\ UNCHANGED headers_before_reload
    /\ UNCHANGED <<persona_vars, pipeline_vars, later_vars>>

\* The page is reloaded: the topic is fetched and rendered again.
Reload ==
    /\ headers_before_reload' = Headers(rows)
    /\ rows' = RenderAll(topic_messages)
    /\ reloaded' = TRUE
    /\ UNCHANGED topic_messages
    /\ UNCHANGED <<persona_vars, pipeline_vars, later_vars>>

NextMessages ==
    \/ SendMessage
    \/ Reload

-----------------------------------------------------------------------------
(***************************************************************************)
(* The user changes their personas from any session (another tab, the      *)
(* Theater, the API): the server applies the change and queues the event   *)
(* for this client.                                                        *)
(***************************************************************************)
UnchangedPage ==
    /\ UnchangedClient
    /\ UNCHANGED <<last_op, dialog_error, form_name, form_id>>

CommitServerQuietly(sv) ==
    /\ sv.error = NoError
    /\ server_personas' = sv.personas
    /\ next_persona_id' = sv.next_id
    /\ client_events' = sv.events

PersonaCreated ==
    /\ ~hung
    /\ UNCHANGED other_vars
    /\ Len(client_events) < MaxInFlight
    /\ next_persona_id <= MaxPersonaId
    /\ \E name \in Names : CommitServerQuietly(ServerCreatePersona(ServerState, name))
    /\ UnchangedPage

PersonaUpdated ==
    /\ ~hung
    /\ UNCHANGED other_vars
    /\ Len(client_events) < MaxInFlight
    /\ \E persona_id \in IdsOf(server_personas), name \in Names :
          CommitServerQuietly(ServerUpdatePersona(ServerState, persona_id, name))
    /\ UnchangedPage

PersonaDeleted ==
    /\ ~hung
    /\ UNCHANGED other_vars
    /\ Len(client_events) < MaxInFlight
    /\ \E persona_id \in IdsOf(server_personas) :
          CommitServerQuietly(ServerDeletePersona(ServerState, persona_id))
    /\ UnchangedPage

(***************************************************************************)
(* The user at the compose box: the persona menu (show_persona_menu), the  *)
(* compose recipient among several streams, closing the compose box and    *)
(* sending.                                                                *)
(***************************************************************************)
WideStreams == {1, 2}

\* Number.parseInt of a string that holds no number
NaN == -1

\* The data-persona-id attribute of a menu item: the id in decimal, empty
\* for the "Yourself" item (id: null).
DataPersonaId(id) == IF id = Null THEN "" ELSE ToString(id)

\* jQuery's attr() of an element without the attribute
NoAttribute == "undefined"

\* Number.parseInt(s, 10)
ParseInt(s) ==
    IF \E n \in 1..(MaxPersonaId + 1) : ToString(n) = s
    THEN CHOOSE n \in 1..(MaxPersonaId + 1) : ToString(n) = s
    ELSE NaN

\* (mutant) a click handler that takes the attribute for a number whatever
\* it holds, and does not display the result
OnMenuItemClickUnchecked(st, persona_id) ==
    SetComposePersonaId(st, ParseInt(persona_id), st.stream)

\* The click handler of .persona-menu-item
OnMenuItemClick(st, persona_id) ==
    IF persona_id = "null" \/ persona_id = NoAttribute
    THEN SetCurrentPersonaId(st, Null)
    ELSE SetCurrentPersonaId(st, ParseInt(persona_id))

NoUi == [op |-> "none", item |-> Null, reset |-> FALSE]

ComposeUiInit ==
    /\ selected_on = <<>>
    /\ last_ui = NoUi

UnchangedByUi ==
    UNCHANGED <<realm_personas_pending, compose_stream, dialog_error, form_name, form_id,
                server_personas, next_persona_id, my_response, client_events>>

\* The user opens the persona menu and clicks one of its items: Yourself,
\* or one of the personas of the list.
ClickMenuItem ==
    /\ ~hung
    /\ selector_visible
    /\ \E item \in {Null} \cup IdsOf(my_personas) :
          LET after == OnMenuItemClick(Client, DataPersonaId(item)) IN
          /\ CommitClient(after, "ui")
          /\ last_ui' = [op |-> "click", item |-> item,
                         reset |-> after.did_reset = "display"]
          /\ selected_on' =
                IF compose_stream = Undefined THEN selected_on
                ELSE [s \in (DOMAIN selected_on) \cup {compose_stream} |->
                         IF s = compose_stream THEN item ELSE selected_on[s]]
    /\ UnchangedByUi
    /\ UNCHANGED <<pipeline_vars, message_vars, realm_vars, command_vars, theater_vars,
                   whisper_vars>>

\* (mutant) what the comment above the handler announces: "Reset persona
\* selection when compose closes"
OnComposeCanceledResets(st) == SetCurrentPersonaId(st, Null)

\* The compose_canceled.zulip handler: its body is a comment.
OnComposeCanceled(st) == st

ComposeCanceled ==
    /\ ~hung
    /\ CommitClient(OnComposeCanceled(Client), "ui")
    /\ last_ui' = [op |-> "canceled", item |-> Null, reset |-> FALSE]
    /\ UNCHANGED selected_on
    /\ UnchangedByUi
    /\ UNCHANGED <<pipeline_vars, message_vars, realm_vars, command_vars, theater_vars,
                   whisper_vars>>

\* Sending the message in the compose box: the send path reads the
\* selection (get_current_persona_id) and calls nothing else of these
\* modules.
OnComposeSend(st) == st

ComposeSend ==
    /\ ~hung
    /\ CommitClient(OnComposeSend(Client), "ui")
    /\ last_ui' = [op |-> "send", item |-> current_compose_persona_id, reset |-> FALSE]
    /\ UNCHANGED selected_on
    /\ UnchangedByUi
    /\ UNCHANGED <<pipeline_vars, message_vars, realm_vars, command_vars, theater_vars,
                   whisper_vars>>

\* compose_state: the compose recipient changes to one of several streams
\* or to a direct message.  No persona code runs.
SetComposeRecipient ==
    /\ ~hung
    /\ \E s \in WideStreams \cup {Undefined} :
          /\ s # compose_stream
          /\ compose_stream' = s
    /\ UNCHANGED <<my_personas, my_personas_fetched, my_personas_pending,
                   realm_personas_fetched, realm_personas_pending,
                   compose_persona_by_stream, current_compose_persona_id,
                   change_callbacks, request_cb, selector_visible, selector_name,
                   using_persona, loaded, list_widget, dialog_error, hung, last_op,
                   did_reset, display_updated, emptied_by_remove, form_name, form_id,
                   server_personas, next_persona_id,
                   my_response, client_events>>
    /\ UNCHANGED other_vars

NextCompose ==
    \/ HandlePersonaEvent
    \/ ServerAnswerMyPersonas
    \/ FetchMySuccess
    \/ FetchMyError
    \/ PersonaDeleted
    \/ SetComposeRecipient
    \/ NarrowChanged
    \/ ClickMenuItem

NextComposeClose ==
    \/ HandlePersonaEvent
    \/ ServerAnswerMyPersonas
    \/ FetchMySuccess
    \/ FetchMyError
    \/ PersonaCreated
    \/ SetComposeStream
    \/ ClickMenuItem
    \/ ComposeCanceled
    \/ ComposeSend

-----------------------------------------------------------------------------
(***************************************************************************)
(* personas.ts: the realm persona cache (fetch_realm_personas).  The       *)
(* server answers the request with the personas it holds at that moment;   *)
(* the response handler runs later.                                        *)
(***************************************************************************)
RealmInit ==
    /\ realm_personas = <<>>
    /\ realm_response = [ready |-> FALSE, personas |-> <<>>]
    /\ realm_failed = FALSE

UnchangedByRealmFetch ==
    UNCHANGED <<my_personas, my_personas_fetched, my_personas_pending,
                compose_persona_by_stream, current_compose_persona_id,
                change_callbacks, request_cb, selector_visible, selector_name,
                using_persona, compose_stream, loaded, list_widget, dialog_error,
                hung, last_op, did_reset, display_updated, emptied_by_remove,
                form_name, form_id, server_personas, next_persona_id, my_response,
                client_events, pipeline_vars, message_vars, compose_ui_vars,
                command_vars, theater_vars, whisper_vars>>

\* fetch_realm_personas(): returns at once when the cache is fetched or a
\* request is pending, otherwise issues the request.
FetchRealmPersonas ==
    /\ ~hung
    /\ realm_personas_pending' =
          IF realm_personas_fetched \/ realm_personas_pending
          THEN realm_personas_pending
          ELSE TRUE
    /\ UNCHANGED <<realm_personas_fetched, realm_vars>>
    /\ UnchangedByRealmFetch

ServerAnswerRealmPersonas ==
    /\ ~hung
    /\ realm_personas_pending
    /\ ~realm_response.ready
    /\ realm_response' = [ready |-> TRUE, personas |-> server_personas]
    /\ UNCHANGED <<realm_personas_fetched, realm_personas_pending, realm_personas,
                   realm_failed>>
    /\ UnchangedByRealmFetch

\* success(raw_data): realm_personas = data.personas
FetchRealmSuccess ==
    /\ ~hung
    /\ realm_personas_pending
    /\ realm_response.ready
    /\ realm_personas' = realm_response.personas
    /\ realm_personas_fetched' = TRUE
    /\ realm_personas_pending' = FALSE
    /\ realm_failed' = FALSE
    /\ realm_response' = [ready |-> FALSE, personas |-> <<>>]
    /\ UnchangedByRealmFetch

FetchRealmError ==
    /\ ~hung
    /\ realm_personas_pending
    /\ realm_personas' = <<>>
    /\ realm_personas_fetched' = TRUE
    /\ realm_personas_pending' = FALSE
    /\ realm_failed' = TRUE
    /\ realm_response' = [ready |-> FALSE, personas |-> <<>>]
    /\ UnchangedByRealmFetch

NextRealm ==
    \/ HandlePersonaEvent
    \/ ServerAnswerMyPersonas
    \/ FetchMySuccess
    \/ PersonaCreated
    \/ PersonaUpdated
    \/ PersonaDeleted
    \/ FetchRealmPersonas
    \/ ServerAnswerRealmPersonas
    \/ FetchRealmSuccess
    \/ FetchRealmError

-----------------------------------------------------------------------------
(***************************************************************************)
(* Bot commands in the compose typeahead.  A bot registers a command with  *)
(* its declared options; the server sends a "bot_commands" event to every  *)
(* connected client; a client that has received it offers "/name" when the *)
(* user types "/", and selecting the item opens command mode.              *)
(***************************************************************************)
MaxClients == 2

Clients == 1..MaxClients

\* the commands bots register, with the names of their declared options
CommandOptions ==
    [testcmd |-> <<"message", "count">>,
     roll    |-> <<"dice">>]

CommandNames == DOMAIN CommandOptions

NoCommand == [active |-> FALSE, name |-> "", fields |-> <<>>]

CommandsInit ==
    /\ bot_commands = {}
    /\ command_events = [c \in Clients |-> <<>>]
    /\ typeahead_commands = [c \in Clients |-> {}]
    /\ command_mode = [c \in Clients |-> NoCommand]

UnchangedByCommands ==
    UNCHANGED <<persona_vars, pipeline_vars, message_vars, compose_ui_vars, realm_vars,
                theater_vars, whisper_vars>>

\* POST bot_commands (name, description, options)
RegisterBotCommand ==
    \E name \in CommandNames \ bot_commands :
        /\ bot_commands' = bot_commands \cup {name}
        /\ command_events' =
              [c \in Clients |-> Append(command_events[c],
                                        [type |-> "bot_commands", op |-> "add",
                                         name |-> name])]
        /\ UNCHANGED <<typeahead_commands, command_mode>>
        /\ UnchangedByCommands

\* the client's event queue delivers the oldest event
DeliverCommandEvent(c) ==
    /\ command_events[c] # <<>>
    /\ command_events' = [command_events EXCEPT ![c] = Tail(@)]
    /\ typeahead_commands' =
          [typeahead_commands EXCEPT ![c] = @ \cup {Head(command_events[c]).name}]
    /\ UNCHANGED <<bot_commands, command_mode>>
    /\ UnchangedByCommands

\* the items offered when the user types "/"
Typeahead(c) == {"/" \o name : name \in typeahead_commands[c]}

\* (mutant) command mode with a field for the first declared option only
CommandFieldsFirstOnly(name) == SubSeq(CommandOptions[name], 1, 1)

\* the field pills of command mode: one per declared option
CommandFields(name) == CommandOptions[name]

SelectCommandFromTypeahead(c) ==
    \E name \in CommandNames :
        /\ ("/" \o name) \in Typeahead(c)
        /\ ~command_mode[c].active
        /\ command_mode' =
              [command_mode EXCEPT
                 ![c] = [active |-> TRUE, name |-> name, fields |-> CommandFields(name)]]
        /\ UNCHANGED <<bot_commands, command_events, typeahead_commands>>
        /\ UnchangedByCommands

ExitCommandMode(c) ==
    /\ command_mode[c].active
    /\ command_mode' = [command_mode EXCEPT ![c] = NoCommand]
    /\ UNCHANGED <<bot_commands, command_events, typeahead_commands>>
    /\ UnchangedByCommands

NextCommands ==
    \/ RegisterBotCommand
    \/ \E c \in Clients : DeliverCommandEvent(c)
    \/ \E c \in Clients : SelectCommandFromTypeahead(c)
    \/ \E c \in Clients : ExitCommandMode(c)

-----------------------------------------------------------------------------
(***************************************************************************)
(* The Theater (web/src/theater): Theater.svelte loads the user's personas *)
(* into the personas store when it mounts and then starts event polling;   *)
(* PersonaPicker.svelte chooses the active persona; the Prompter sends     *)
(* messages under it.                                                      *)
(***************************************************************************)
MaxTheaterMessages == 2

\* pageParams.state_data: absent, or with queue_id / last_event_id present
\* or not.  "" stands for an undefined queue_id (both are falsy).
NoQueueId == ""

PageStateData ==
    {[present |-> FALSE, queue_id |-> NoQueueId, has_last_event_id |-> FALSE, last_event_id |-> 0],
     [present |-> TRUE, queue_id |-> NoQueueId, has_last_event_id |-> TRUE, last_event_id |-> 7],
     [present |-> TRUE, queue_id |-> "1517:0", has_last_event_id |-> FALSE, last_event_id |-> 0],
     [present |-> TRUE, queue_id |-> "1517:0", has_last_event_id |-> TRUE, last_event_id |-> 7]}

NotMounted == [present |-> FALSE, queue_id |-> NoQueueId, has_last_event_id |-> FALSE,
               last_event_id |-> 0]

\* let queueId = $derived(stateData?.queue_id)
QueueId(state_data) == IF state_data.present THEN state_data.queue_id ELSE NoQueueId

\* let lastEventId = $derived((stateData?.last_event_id as number) ?? -1)
LastEventId(state_data) ==
    IF state_data.present /\ state_data.has_last_event_id
    THEN state_data.last_event_id
    ELSE -1

NotPolling == [started |-> FALSE, queue_id |-> NoQueueId, last_event_id |-> -1]

\* what GET personas can answer: the user's personas, newest first
RECURSIVE TheaterPersonaList(_)
TheaterPersonaList(n) ==
    IF n = 0 THEN <<>>
    ELSE TheaterPersonaList(n - 1) \o
            <<[id |-> MaxPersonaId + 1 - n, name |-> CharacterName(MaxPersonaId + 1 - n)]>>

FetchPersonasResults ==
    {[ok |-> FALSE, personas |-> <<>>]}
       \cup {[ok |-> TRUE, personas |-> TheaterPersonaList(n)] : n \in 0..MaxPersonaId}

NoRequest == [type |-> "none"]

TheaterInit ==
    /\ page_state_data = NotMounted
    /\ mounted = "no"
    /\ load_in_flight = "none"
    /\ last_load = "none"
    /\ theater_personas = <<>>
    /\ personaError = FALSE
    /\ polling = NotPolling
    /\ activePersonaId = Null
    /\ isOpen = FALSE
    /\ focusedIndex = -1
    /\ content = ""
    /\ isSending = FALSE
    /\ send_request = NoRequest
    /\ selected_at_send = Null
    /\ sendError = FALSE
    /\ theater_messages = <<>>

UnchangedByTheater ==
    UNCHANGED <<persona_vars, pipeline_vars, message_vars, compose_ui_vars, realm_vars,
                command_vars, whisper_vars>>

picker_vars == <<activePersonaId, isOpen, focusedIndex>>
prompter_vars == <<content, isSending, send_request, selected_at_send, sendError,
                   theater_messages>>
load_vars == <<page_state_data, mounted, load_in_flight, last_load, theater_personas,
               personaError, polling>>

\* (mutant) a failed load that is not reported
LoadPersonasSilent(store, error, result) ==
    [personas |-> IF result.ok THEN result.personas ELSE store,
     personaError |-> error]

\* try { personas.set(await api.fetchPersonas()) } catch { personaError = true }
LoadPersonas(store, error, result) ==
    [personas |-> IF result.ok THEN result.personas ELSE store,
     personaError |-> IF result.ok THEN error ELSE TRUE]

\* if (queueId) { initializeEventHandler(queueId, lastEventId); }
StartPolling(state_data, current) ==
    IF QueueId(state_data) # NoQueueId
    THEN [started |-> TRUE, queue_id |-> QueueId(state_data),
          last_event_id |-> LastEventId(state_data)]
    ELSE current

\* onMount, up to the await of api.fetchPersonas()
MountTheater ==
    /\ mounted = "no"
    /\ \E state_data \in PageStateData : page_state_data' = state_data
    /\ mounted' = "loading"
    /\ load_in_flight' = "mount"
    /\ UNCHANGED <<last_load, theater_personas, personaError, polling, picker_vars,
                   prompter_vars>>
    /\ UnchangedByTheater

\* onMount, from the completion of api.fetchPersonas() to its end
MountLoaded ==
    /\ load_in_flight = "mount"
    /\ \E result \in FetchPersonasResults :
          LET loaded_store == LoadPersonas(theater_personas, personaError, result)
          IN /\ theater_personas' = loaded_store.personas
             /\ personaError' = loaded_store.personaError
             /\ last_load' = IF result.ok THEN "ok" ELSE "failed"
    /\ polling' = StartPolling(page_state_data, polling)
    /\ mounted' = "done"
    /\ load_in_flight' = "none"
    /\ UNCHANGED <<page_state_data, picker_vars, prompter_vars>>
    /\ UnchangedByTheater

\* the banner's dismiss button
DismissPersonaError ==
    /\ personaError
    /\ personaError' = FALSE
    /\ UNCHANGED <<page_state_data, mounted, load_in_flight, last_load, theater_personas,
                   polling, picker_vars, prompter_vars>>
    /\ UnchangedByTheater

\* the banner's Retry button: retryLoadPersonas up to its await
RetryLoadPersonas ==
    /\ personaError
    /\ personaError' = FALSE
    /\ load_in_flight' = "retry"
    /\ UNCHANGED <<page_state_data, mounted, last_load, theater_personas, polling,
                   picker_vars, prompter_vars>>
    /\ UnchangedByTheater

\* retryLoadPersonas from the completion of api.fetchPersonas()
RetryLoaded ==
    /\ load_in_flight = "retry"
    /\ \E result \in FetchPersonasResults :
          LET loaded_store == LoadPersonas(theater_personas, personaError, result)
          IN /\ theater_personas' = loaded_store.personas
             /\ personaError' = loaded_store.personaError
             /\ last_load' = IF result.ok THEN "ok" ELSE "failed"
    /\ load_in_flight' = "none"
    /\ UNCHANGED <<page_state_data, mounted, polling, picker_vars, prompter_vars>>
    /\ UnchangedByTheater

(***************************************************************************)
(* PersonaPicker.svelte.  Option indices are JavaScript's (from 0); the    *)
(* sequence AllOptions is indexed from 1, so option k is AllOptions[k+1].  *)
(***************************************************************************)
\* allOptions = [null, ...userPersonas], as the ids of the options
AllOptions(store) == <<Null>> \o [i \in 1..Len(store) |-> store[i].id]

\* (mutant) focus always on the first option
FindSelectedIndexFirst(options, selectedPersonaId) == 0

\* allOptions.findIndex(opt => opt === null ? selectedPersonaId === null
\*                                          : opt.id === selectedPersonaId)
FindSelectedIndex(options, selectedPersonaId) ==
    LET matching == {k \in 1..Len(options) : options[k] = selectedPersonaId}
    IN IF matching = {} THEN -1
       ELSE (CHOOSE k \in matching : \A other \in matching : k <= other) - 1

Min(a, b) == IF a <= b THEN a ELSE b
Max(a, b) == IF a >= b THEN a ELSE b

ToggleDropdown ==
    /\ isOpen' = ~isOpen
    /\ focusedIndex' =
          IF isOpen'
          THEN FindSelectedIndex(AllOptions(theater_personas), activePersonaId)
          ELSE focusedIndex
    /\ UNCHANGED <<activePersonaId, load_vars, prompter_vars>>
    /\ UnchangedByTheater

\* selectPersona(persona): onSelect(persona?.id ?? null), i.e. the
\* Prompter's handlePersonaSelect; isOpen = false
SelectPersona(option) ==
    /\ activePersonaId' = option
    /\ isOpen' = FALSE

\* a click on an option of the open dropdown
ClickOption ==
    /\ isOpen
    /\ \E k \in 1..Len(AllOptions(theater_personas)) :
          SelectPersona(AllOptions(theater_personas)[k])
    /\ UNCHANGED <<focusedIndex, load_vars, prompter_vars>>
    /\ UnchangedByTheater

HandleClickOutside ==
    /\ isOpen' = FALSE
    /\ UNCHANGED <<activePersonaId, focusedIndex, load_vars, prompter_vars>>
    /\ UnchangedByTheater

Keys == {"ArrowDown", "ArrowUp", "Enter", " ", "Escape", "Home", "End", "Tab"}

HandleKeydown ==
    /\ \E key \in Keys :
          LET options == AllOptions(theater_personas)
          IN IF ~isOpen
             THEN IF key \in {"ArrowDown", "ArrowUp", "Enter", " "}
                  THEN /\ isOpen' = TRUE
                       /\ focusedIndex' = FindSelectedIndex(options, activePersonaId)
                       /\ UNCHANGED activePersonaId
                  ELSE UNCHANGED picker_vars
             ELSE CASE key = "ArrowDown" ->
                          /\ focusedIndex' = Min(focusedIndex + 1, Len(options) - 1)
                          /\ UNCHANGED <<isOpen, activePersonaId>>
                    [] key = "ArrowUp" ->
                          /\ focusedIndex' = Max(focusedIndex - 1, 0)
                          /\ UNCHANGED <<isOpen, activePersonaId>>
                    [] key \in {"Enter", " "} ->
                          IF focusedIndex >= 0 /\ focusedIndex < Len(options)
                          THEN /\ SelectPersona(options[focusedIndex + 1])
                               /\ UNCHANGED focusedIndex
                          ELSE UNCHANGED picker_vars
                    [] key = "Escape" ->
                          /\ isOpen' = FALSE
                          /\ UNCHANGED <<focusedIndex, activePersonaId>>
                    [] key = "Home" ->
                          /\ focusedIndex' = 0
                          /\ UNCHANGED <<isOpen, activePersonaId>>
                    [] key = "End" ->
                          /\ focusedIndex' = Len(options) - 1
                          /\ UNCHANGED <<isOpen, activePersonaId>>
                    [] OTHER -> UNCHANGED picker_vars
    /\ UNCHANGED <<load_vars, prompter_vars>>
    /\ UnchangedByTheater

(***************************************************************************)
(* The Prompter: sendMessage and the server's side of the request.         *)
(***************************************************************************)
Contents == {"", "You shall not pass!"}

TypeContent ==
    /\ \E text \in Contents : content' = text
    /\ UNCHANGED <<isSending, send_request, selected_at_send, sendError, theater_messages,
                   load_vars, picker_vars>>
    /\ UnchangedByTheater

\* (mutant) a request that never names a persona
SendMessageRequestAsYourself(active, trimmedContent) ==
    [type |-> "stream", content |-> trimmedContent]

\* the argument of api.sendMessage: persona_id: $activePersonaId ?? undefined
\* (an undefined field is not part of the request)
SendMessageRequest(active, trimmedContent) ==
    IF active = Null
    THEN [type |-> "stream", content |-> trimmedContent]
    ELSE [type |-> "stream", content |-> trimmedContent, persona_id |-> active]

\* sendMessage up to the await of api.sendMessage
PrompterSend ==
    /\ content # ""
    /\ ~isSending
    /\ Len(theater_messages) < MaxTheaterMessages
    /\ isSending' = TRUE
    /\ sendError' = FALSE
    /\ send_request' = SendMessageRequest(activePersonaId, content)
    /\ selected_at_send' = activePersonaId
    /\ UNCHANGED <<content, theater_messages, load_vars, picker_vars>>
    /\ UnchangedByTheater

\* the sender shown for a stored message: the persona's name when the
\* request named a persona, the real user otherwise
StoredMessage(id, request, selected) ==
    LET persona_id == IF "persona_id" \in DOMAIN request THEN request.persona_id ELSE Null
    IN [id |-> id, persona_id |-> persona_id,
        characterName |-> CharacterName(persona_id),
        content |-> request.content,
        selected |-> selected]

\* the request succeeds: content = "", messageSent dispatched; finally
\* isSending = false
SendSucceeded ==
    /\ isSending
    /\ theater_messages' =
          Append(theater_messages,
                 StoredMessage(Len(theater_messages) + 1, send_request, selected_at_send))
    /\ content' = ""
    /\ isSending' = FALSE
    /\ send_request' = NoRequest
    /\ UNCHANGED <<selected_at_send, sendError, load_vars, picker_vars>>
    /\ UnchangedByTheater

\* the request fails: sendError set; finally isSending = false
SendFailed ==
    /\ isSending
    /\ sendError' = TRUE
    /\ isSending' = FALSE
    /\ send_request' = NoRequest
    /\ UNCHANGED <<content, selected_at_send, theater_messages, load_vars, picker_vars>>
    /\ UnchangedByTheater

NextTheater ==
    \/ MountTheater
    \/ MountLoaded
    \/ DismissPersonaError
    \/ RetryLoadPersonas
    \/ RetryLoaded
    \/ ToggleDropdown
    \/ ClickOption
    \/ HandleClickOutside
    \/ HandleKeydown

NextPrompter ==
    \/ MountTheater
    \/ MountLoaded
    \/ ToggleDropdown
    \/ ClickOption
    \/ TypeContent
    \/ PrompterSend
    \/ SendSucceeded
    \/ SendFailed

-----------------------------------------------------------------------------
(***************************************************************************)
(* The whisper recipient input (unnamed/part_003): a pill input whose      *)
(* pills are users, user groups and, with a stream context, puppets of the *)
(* stream.  A pill is [type, id, name].                                    *)
(***************************************************************************)
\* stream_puppets.get_puppets_for_stream(stream_id)
PuppetsForStream(stream_id) ==
    IF stream_id = 1
    THEN <<[id |-> 1, name |-> "Gandalf"], [id |-> 2, name |-> "Frodo"]>>
    ELSE IF stream_id = 2
    THEN <<[id |-> 2, name |-> "Frodo"]>>
    ELSE <<>>

\* user_groups.get_realm_user_groups() and people.get_realm_users()
RealmUserGroups == <<[id |-> 20, name |-> "gandalf"]>>
RealmUsers == <<[id |-> 10, name |-> "Iago"]>>

\* what the user can type into the input
Texts == {"gandalf", "GANDALF", "Frodo", "frodo", "10", "nobody"}

\* String.prototype.toLowerCase on the strings of the model
ToLowerCase(s) ==
    CASE s \in {"Gandalf", "GANDALF", "gandalf"} -> "gandalf"
      [] s \in {"Frodo", "frodo"} -> "frodo"
      [] s = "Iago" -> "iago"
      [] OTHER -> s

NoItem == [type |-> "none", id |-> 0, name |-> ""]

ItemsOf(items) == {items[i] : i \in 1..Len(items)}

\* get_puppet_ids(): ids of the puppet pills of the widget
GetPuppetIds(items) == {item.id : item \in {it \in ItemsOf(items) : it.type = "puppet"}}

\* Array.prototype.find: the first element satisfying the test
FirstIndex(seq, Test(_)) ==
    LET matching == {i \in 1..Len(seq) : Test(seq[i])}
    IN IF matching = {} THEN 0
       ELSE CHOOSE i \in matching : \A j \in matching : i <= j

\* user_group_pill.create_item_from_group_name: the group of that name,
\* unless it already has a pill
CreateItemFromGroupName(text, current_items) ==
    LET SameName(group) == group.name = text
        index == FirstIndex(RealmUserGroups, SameName)
    IN IF index = 0 THEN NoItem
       ELSE LET item == [type |-> "user_group", id |-> RealmUserGroups[index].id,
                         name |-> RealmUserGroups[index].name]
            IN IF item \in ItemsOf(current_items) THEN NoItem ELSE item

\* user_pill.create_item_from_user_id: the user with that id, unless the
\* user already has a pill
CreateItemFromUserId(text, current_items) ==
    LET SameId(user) == ToString(user.id) = text
        index == FirstIndex(RealmUsers, SameId)
    IN IF index = 0 THEN NoItem
       ELSE LET item == [type |-> "user", id |-> RealmUsers[index].id,
                         name |-> RealmUsers[index].name]
            IN IF item \in ItemsOf(current_items) THEN NoItem ELSE item

\* the tail of create_item_from_text: user groups, then users
CreateGroupOrUserItem(text, current_items) ==
    IF CreateItemFromGroupName(text, current_items) # NoItem
    THEN CreateItemFromGroupName(text, current_items)
    ELSE CreateItemFromUserId(text, current_items)

\* (mutant) a puppet pill created without looking at the pills present
CreateItemFromTextUnchecked(stream_id, text, current_items) ==
    LET puppets == PuppetsForStream(stream_id)
        SameName(puppet) == ToLowerCase(puppet.name) = ToLowerCase(text)
        index == FirstIndex(puppets, SameName)
    IN IF stream_id # Undefined /\ index # 0
       THEN [type |-> "puppet", id |-> puppets[index].id, name |-> puppets[index].name]
       ELSE CreateGroupOrUserItem(text, current_items)

\* create_item_from_text(text, current_items), with current_stream_id
CreateItemFromText(stream_id, text, current_items) ==
    LET puppets == PuppetsForStream(stream_id)
        SameName(puppet) == ToLowerCase(puppet.name) = ToLowerCase(text)
        index == FirstIndex(puppets, SameName)
        already_added ==
            \E item \in ItemsOf(current_items) :
                item.type = "puppet" /\ item.id = puppets[index].id
    IN IF stream_id # Undefined /\ index # 0 /\ ~already_added
       THEN [type |-> "puppet", id |-> puppets[index].id, name |-> puppets[index].name]
       ELSE CreateGroupOrUserItem(text, current_items)

\* get_puppets(): the puppets of the stream without a pill yet
GetPuppets(stream_id, items) ==
    IF stream_id = Undefined THEN {}
    ELSE {[type |-> "puppet", id |-> PuppetsForStream(stream_id)[i].id,
           name |-> PuppetsForStream(stream_id)[i].name] :
             i \in {k \in 1..Len(PuppetsForStream(stream_id)) :
                       PuppetsForStream(stream_id)[k].id \notin GetPuppetIds(items)}}

\* get_groups() and get_users(): filter_taken_groups / filter_taken_users
GetGroups(items) ==
    {[type |-> "user_group", id |-> RealmUserGroups[i].id, name |-> RealmUserGroups[i].name] :
        i \in 1..Len(RealmUserGroups)} \ ItemsOf(items)

GetUsers(items) ==
    {[type |-> "user", id |-> RealmUsers[i].id, name |-> RealmUsers[i].name] :
        i \in 1..Len(RealmUsers)} \ ItemsOf(items)

\* source(): what the typeahead offers
TypeaheadSource(stream_id, items) ==
    GetGroups(items) \cup GetUsers(items) \cup GetPuppets(stream_id, items)

NoWhisper == [op |-> "none", text |-> "", tick |-> 0]

WhisperStep(op, text) == [op |-> op, text |-> text, tick |-> 1 - last_whisper.tick]

WhisperInit ==
    /\ current_stream_id = Undefined
    /\ whisper_items = <<>>
    /\ last_whisper = NoWhisper

UnchangedByWhisper ==
    UNCHANGED <<persona_vars, pipeline_vars, message_vars, compose_ui_vars, realm_vars,
                command_vars, theater_vars>>

SetCurrentStreamId ==
    /\ \E stream_id \in WideStreams \cup {Undefined} : current_stream_id' = stream_id
    /\ last_whisper' = WhisperStep("stream", "")
    /\ UNCHANGED whisper_items
    /\ UnchangedByWhisper

\* the pill input turns typed text into a pill if create_item_from_text
\* returns an item
EnterText ==
    /\ \E text \in Texts :
          LET item == CreateItemFromText(current_stream_id, text, whisper_items)
          IN /\ whisper_items' =
                   IF item = NoItem THEN whisper_items ELSE Append(whisper_items, item)
             /\ last_whisper' = WhisperStep("text", text)
    /\ UNCHANGED current_stream_id
    /\ UnchangedByWhisper

\* the user picks one of the items the typeahead offers: updater(item)
TypeaheadSelect ==
    /\ \E item \in TypeaheadSource(current_stream_id, whisper_items) :
          /\ whisper_items' = Append(whisper_items, item)
          /\ last_whisper' = WhisperStep("typeahead", item.name)
    /\ UNCHANGED current_stream_id
    /\ UnchangedByWhisper

\* the user removes a pill
RemovePill ==
    /\ \E i \in 1..Len(whisper_items) :
          whisper_items' = SubSeq(whisper_items, 1, i - 1)
                              \o SubSeq(whisper_items, i + 1, Len(whisper_items))
    /\ last_whisper' = WhisperStep("remove", "")
    /\ UNCHANGED current_stream_id
    /\ UnchangedByWhisper

\* clear()
ClearWhisper ==
    /\ whisper_items # <<>>
    /\ whisper_items' = <<>>
    /\ last_whisper' = WhisperStep("clear", "")
    /\ UNCHANGED current_stream_id
    /\ UnchangedByWhisper

NextWhisper ==
    \/ SetCurrentStreamId
    \/ EnterText
    \/ TypeaheadSelect
    \/ RemovePill
    \/ ClearWhisper

-----------------------------------------------------------------------------
-----------------------------------------------------------------------------
Init == PersonaInit /\ PipelineInit /\ MessagesInit /\ ComposeUiInit /\ RealmInit /\ CommandsInit
        /\ TheaterInit /\ WhisperInit

(***************************************************************************)
(* Spec: the compose box of one page (personas.ts, compose_persona.ts)     *)
(* while the user's personas change on the server.                         *)
(***************************************************************************)
Next ==
    \/ HandlePersonaEvent
    \/ ServerAnswerMyPersonas
    \/ FetchMySuccess
    \/ FetchMyError
    \/ CyclePersona
    \/ NarrowChanged
    \/ SetComposeStream
    \/ PersonaCreated
    \/ PersonaUpdated
    \/ PersonaDeleted

Spec == Init /\ [][Next]_vars

(***************************************************************************)
(* SpecSettings: the "My characters" settings panel of one page, its       *)
(* dialogs and the server behind them.                                     *)
(***************************************************************************)
NextSettings ==
    \/ HandlePersonaEvent
    \/ ServerAnswerMyPersonas
    \/ FetchMySuccess
    \/ FetchMyError
    \/ SetUp
    \/ Reset
    \/ AddCharacter
    \/ EditCharacter
    \/ DeleteCharacter

SpecSettings == Init /\ [][NextSettings]_vars

(***************************************************************************)
(* SpecPipeline: commands on their way to a bot.                           *)
(***************************************************************************)
SpecPipeline == Init /\ [][NextPipeline]_vars

(***************************************************************************)
(* SpecMessages: a topic's messages on screen.                             *)
(***************************************************************************)
SpecMessages == Init /\ [][NextMessages]_vars

(***************************************************************************)
(* SpecCompose: the user at the compose box, composing to several streams, *)
(* while the user's personas are created and deleted on the server.        *)
(***************************************************************************)
SpecCompose == Init /\ [][NextCompose]_vars

(***************************************************************************)
(* SpecComposeClose: selecting a persona, sending, and closing the compose *)
(* box.                                                                    *)
(***************************************************************************)
SpecComposeClose == Init /\ [][NextComposeClose]_vars

(***************************************************************************)
(* SpecRealm: the realm persona cache while the user's personas change.    *)
(***************************************************************************)
SpecRealm == Init /\ [][NextRealm]_vars

(***************************************************************************)
(* SpecCache: the user's persona cache while the initial fetch is answered *)
(* and personas are created, renamed and deleted; the request succeeds.    *)
(***************************************************************************)
NextCache ==
    \/ HandlePersonaEvent
    \/ ServerAnswerMyPersonas
    \/ FetchMySuccess
    \/ PersonaCreated
    \/ PersonaUpdated
    \/ PersonaDeleted

SpecCache == Init /\ [][NextCache]_vars

(***************************************************************************)
(* SpecTheater: the Theater's persona load with its error banner, and the  *)
(* persona picker.  SpecPrompter: the picker and the Prompter's send.      *)
(***************************************************************************)
SpecTheater == Init /\ [][NextTheater]_vars

SpecPrompter == Init /\ [][NextPrompter]_vars

(***************************************************************************)
(* SpecWhisper: the whisper recipient input.                               *)
(***************************************************************************)
SpecWhisper == Init /\ [][NextWhisper]_vars

(***************************************************************************)
(* SpecCommands: command registration and the compose typeahead.  Every    *)
(* connected client keeps polling its event queue, so a queued event is    *)
(* eventually delivered.                                                   *)
(***************************************************************************)
SpecCommands ==
    /\ Init
    /\ [][NextCommands]_vars
    /\ \A c \in Clients : WF_vars(DeliverCommandEvent(c))

-----------------------------------------------------------------------------
(***************************************************************************)
(* Properties of the settings panel and the server (SpecSettings).         *)
(***************************************************************************)

\* C1: creating a persona whose name the user already owns fails with the
\* duplicate-name error shown in the dialog, and creates nothing: the
\* server's personas and the queued events are as before the submission.
C1_DuplicateNameRejected ==
    [][(AddCharacter /\ NameTaken(server_personas, form_name', Null))
          => /\ dialog_error' = DuplicateNameError
             /\ server_personas' = server_personas
             /\ next_persona_id' = next_persona_id
             /\ client_events' = client_events]_vars

\* C1 witness: the add dialog shows the duplicate-name error for a name the
\* user owns (exactly once).
C1_Witness ==
    /\ form_id = Null
    /\ dialog_error = DuplicateNameError
    /\ Cardinality({i \in 1..Len(server_personas) : server_personas[i].name = form_name}) = 1

\* C5: in every reachable state no two personas of the user have the same
\* name (and none is listed twice).
C5_NamesUniquePerUser ==
    \A i, j \in 1..Len(server_personas) :
        server_personas[i].name = server_personas[j].name => i = j

\* C5 witness: the user owns two personas and a rename of one of them to
\* the other's name has just been refused.
C5_Witness ==
    /\ Len(server_personas) = 2
    /\ form_id # Null
    /\ dialog_error = DuplicateNameError
    /\ \E i \in 1..Len(server_personas) :
          server_personas[i].name = form_name /\ server_personas[i].id # form_id

-----------------------------------------------------------------------------
(***************************************************************************)
(* Properties of the compose box (Spec).                                   *)
(***************************************************************************)
CurValid ==
    current_compose_persona_id = Null \/ current_compose_persona_id \in IdsOf(my_personas)

\* C7: once remove events have emptied the user's persona list, the compose
\* persona selector is hidden, and it stays hidden while the list is empty.
C7_SelectorHiddenWhenEmptied == emptied_by_remove => ~selector_visible

\* C8: when the user has at least one persona the compose persona selector
\* is visible, and it shows "Yourself" as long as no persona is selected.
C8_SelectorVisibleWithPersonas ==
    /\ Len(my_personas) > 0 => selector_visible
    /\ current_compose_persona_id = Null => (selector_name = Yourself /\ ~using_persona)

\* C9: after a remove event has been handled, or the selector display has
\* been updated, and the handler has returned, the compose selection is
\* Yourself (null) or the id of a persona in the user's list.
C9_MissingPersonaResets ==
    (~hung /\ (last_op = "event_remove" \/ display_updated)) => CurValid

\* C9 witness: a handler found the selected persona missing from the list,
\* took the reset branch of update_selector_display and returned with the
\* selection on Yourself.
C9_Witness ==
    /\ ~hung
    /\ did_reset = "display"
    /\ display_updated
    /\ current_compose_persona_id = Null
    /\ selector_name = Yourself

RECURSIVE CycleTimes(_, _)
CycleTimes(st, k) == IF k = 0 THEN st ELSE CycleTimes(CyclePersonaOn(st), k - 1)

\* C10: with n >= 1 personas and a valid selection, n+1 consecutive calls of
\* cycle_persona select n+1 different identities (every persona and
\* Yourself, each once), the first after Yourself being the first persona of
\* the list and the last one being the starting selection; each call moves
\* to the next persona of the list; with no personas a call changes nothing.
C10_CycleVisitsEveryIdentityOnce ==
    ~hung =>
      LET n == Len(my_personas)
          visited == [k \in 1..(n + 1) |-> CycleTimes(Client, k).cur]
      IN /\ n = 0 => CyclePersonaOn(Client) = Client
         /\ (n >= 1 /\ CurValid) =>
               /\ visited[n + 1] = current_compose_persona_id
               /\ {visited[k] : k \in 1..(n + 1)} = IdsOf(my_personas) \cup {Null}
               /\ \A k, l \in 1..(n + 1) : visited[k] = visited[l] => k = l
               /\ \A k \in 1..n :
                     visited[k] = Null => visited[k + 1] = my_personas[1].id

-----------------------------------------------------------------------------
(***************************************************************************)
(* Properties of the bot-interaction pipeline (SpecPipeline).              *)
(***************************************************************************)
QueuedIds ==
    {interaction_queue[i].interaction_id : i \in 1..Len(interaction_queue)}

\* The worker is done with the event: delivered, or given up.
Settled(id) == id \in 1..Len(entered) /\ id \notin QueuedIds

Matches(body, id) ==
    /\ body.type = "command_invocation"
    /\ body.interaction_id = id
    /\ body.command = entered[id].command
    /\ body.arguments = entered[id].arguments
    /\ body.user = entered[id].user

InEnqueueOrder ==
    \A i, j \in 1..Len(bot_requests) :
        i < j => bot_requests[i].interaction_id <= bot_requests[j].interaction_id

C4_InteractionConsumedAtMostOnce ==
    \A id \in 1..Len(accepted) :
        /\ accepted[id] <= 1
        /\ accepted[id] = 1 <=> id \in consumed

\* C4 witness: the bot received an interaction twice and answered it twice;
\* one response was accepted.
C4_Witness ==
    \E id \in 1..Len(accepted) :
        /\ Cardinality(PostsFor(id)) >= 2
        /\ responses[id] >= 2
        /\ accepted[id] = 1

-----------------------------------------------------------------------------
(***************************************************************************)
(* Properties of the rendered topic (SpecMessages).                        *)
(***************************************************************************)

-----------------------------------------------------------------------------
(***************************************************************************)
(* Properties of the persona menu, of closing the compose box and of       *)
(* sending (SpecComposeClose).                                             *)
(***************************************************************************)

-----------------------------------------------------------------------------
(***************************************************************************)
(* Properties of update_for_stream (SpecCompose, Spec).                    *)
(***************************************************************************)

\* C15: with the personas fetched and the list not empty, a call
\* update_for_stream(s) leaves as compose selection the selection the user
\* made last while composing to s, a persona of the list or Yourself alike,
\* whatever was selected before the call.
C15_UpdateForStreamRestoresSticky ==
    (~hung /\ my_personas_fetched /\ Len(my_personas) > 0) =>
        \A s \in DOMAIN selected_on :
            (selected_on[s] = Null \/ selected_on[s] \in IdsOf(my_personas))
               => UpdateForStream(Client, s).cur = selected_on[s]

-----------------------------------------------------------------------------
(***************************************************************************)
(* Properties of fetch_my_personas (SpecSettings).                         *)
(***************************************************************************)

\* C17: a callback passed to fetch_my_personas while the request is pending
\* is invoked when the request completes, by success or by failure: the
\* one-time callback that wraps it unregisters itself when it is invoked,
\* so once the response handler has returned no one-time callback is
\* registered any more.
C17_CallbackInvokedAtCompletion ==
    [][(FetchMySuccess \/ FetchMyError)
          => \/ hung'
             \/ \A i \in 1..Len(change_callbacks') : change_callbacks'[i].kind # "once"]_vars

-----------------------------------------------------------------------------
(***************************************************************************)
(* Properties of the realm persona cache (SpecRealm).                      *)
(***************************************************************************)

\* C18: whenever fetch_realm_personas() would return without a request
\* (the cache is marked fetched, nothing is pending, and its last request
\* did not fail), the cached data is at least as new as every persona event
\* handled so far: with every event handled, it is what the server holds.
C18_RealmCacheNewerThanEvents ==
    (~hung /\ realm_personas_fetched /\ ~realm_personas_pending /\ ~realm_failed
        /\ client_events = <<>>)
       => realm_personas = server_personas

-----------------------------------------------------------------------------
(***************************************************************************)
(* Properties of bot commands in the compose typeahead (SpecCommands).     *)
(***************************************************************************)

\* C14: once a command is registered, every connected client eventually
\* offers "/name" in the compose typeahead; and a client in command mode has
\* exactly one field per declared option of the selected command, in the
\* declared order, for a command its typeahead offers.
C14_RegisteredCommandOfferedAndEntered ==
    /\ \A name \in CommandNames :
          (name \in bot_commands)
             ~> (\A c \in Clients : ("/" \o name) \in Typeahead(c))
    /\ [](\A c \in Clients :
             command_mode[c].active
                => /\ ("/" \o command_mode[c].name) \in Typeahead(c)
                   /\ Len(command_mode[c].fields) = Len(CommandOptions[command_mode[c].name])
                   /\ command_mode[c].fields = CommandOptions[command_mode[c].name])

\* every client offers /testcmd and one of them has entered command mode
\* with its two fields
C14_Witness ==
    /\ \A c \in Clients : "/testcmd" \in Typeahead(c)
    /\ \E c \in Clients :
          /\ command_mode[c].active
          /\ command_mode[c].name = "testcmd"
          /\ Len(command_mode[c].fields) = 2

-----------------------------------------------------------------------------
(***************************************************************************)
(* Properties of the Theater (SpecTheater, SpecPrompter).                  *)
(***************************************************************************)

\* C13: a message is sent under the identity selected when sendMessage was
\* called: the request in flight names that persona, or no persona for
\* Yourself, and every stored message shows that persona's name, or the
\* real user's for Yourself, whatever was selected afterwards.
C13_SentUnderSelectedIdentity ==
    /\ isSending =>
          IF selected_at_send = Null
          THEN "persona_id" \notin DOMAIN send_request
          ELSE /\ "persona_id" \in DOMAIN send_request
               /\ send_request.persona_id = selected_at_send
    /\ \A i \in 1..Len(theater_messages) :
          /\ theater_messages[i].persona_id = theater_messages[i].selected
          /\ theater_messages[i].characterName =
                CharacterName(theater_messages[i].selected)

\* a message sent as a persona is stored while another identity is selected,
\* and a message sent as Yourself is stored too
C13_Witness ==
    /\ \E i \in 1..Len(theater_messages) :
          /\ theater_messages[i].selected # Null
          /\ theater_messages[i].characterName # CharacterName(Null)
          /\ activePersonaId # theater_messages[i].selected
    /\ \E i \in 1..Len(theater_messages) :
          /\ theater_messages[i].selected = Null
          /\ theater_messages[i].characterName = CharacterName(Null)

\* C19: when the load of the mount fails, personaError is set, the personas
\* store is unchanged, and polling is started with the page's queue id and
\* last event id if a queue id is present; once the Theater has mounted
\* with a queue id, polling runs with these ids; Retry clears the error;
\* and the error is set only by a load that failed.
C19_LoadFailureKeepsChatUsable ==
    /\ [][(load_in_flight = "mount" /\ load_in_flight' = "none" /\ last_load' = "failed")
             => /\ personaError'
                /\ theater_personas' = theater_personas
                /\ QueueId(page_state_data) # NoQueueId
                      => polling' = [started |-> TRUE,
                                     queue_id |-> QueueId(page_state_data),
                                     last_event_id |-> LastEventId(page_state_data)]]_vars
    /\ []((mounted = "done" /\ QueueId(page_state_data) # NoQueueId)
             => /\ polling.started
                /\ polling.queue_id = page_state_data.queue_id
                /\ polling.last_event_id = LastEventId(page_state_data))
    /\ [][(load_in_flight = "none" /\ load_in_flight' = "retry") => ~personaError']_vars
    /\ [][(~personaError /\ personaError')
             => (load_in_flight # "none" /\ load_in_flight' = "none"
                    /\ last_load' = "failed")]_vars
    /\ [][(load_in_flight = "retry" /\ load_in_flight' = "none")
             => (personaError' <=> last_load' = "failed")]_vars

\* the load has failed with a queue id on the page: the banner is shown,
\* the store is empty and polling runs
C19_Witness ==
    /\ mounted = "done"
    /\ QueueId(page_state_data) # NoQueueId
    /\ polling.started
    /\ personaError
    /\ last_load = "failed"
    /\ theater_personas = <<>>

\* C20: whenever the dropdown goes from closed to open, the focused index is
\* 0 if Yourself is selected and i+1 if the i-th persona of the store
\* (counted from 0) is.
C20_OpensOnSelectedOption ==
    [][(~isOpen /\ isOpen')
          => IF activePersonaId' = Null
             THEN focusedIndex' = 0
             ELSE \E i \in 1..Len(theater_personas') :
                     /\ theater_personas'[i].id = activePersonaId'
                     /\ focusedIndex' = i]_vars

\* the dropdown is open, focused on the selected persona, which is not the
\* first of the store
C20_Witness ==
    /\ isOpen
    /\ activePersonaId # Null
    /\ Len(theater_personas) >= 2
    /\ theater_personas[2].id = activePersonaId
    /\ focusedIndex = 2

-----------------------------------------------------------------------------
(***************************************************************************)
(* Termination of the event handler (Spec) and convergence of the cache    *)
(* (SpecCache).                                                            *)
(***************************************************************************)

\* C22: handling a persona event always terminates: notify_change invokes
\* finitely many callbacks and handle_persona_event returns.
C22_HandlePersonaEventTerminates ==
    [][HandlePersonaEvent => ~hung']_vars

\* C23: once the response of the fetch and every persona event have been
\* processed, get_my_personas() holds exactly the personas the user owns on
\* the server, each id exactly once.
C23_CacheConvergesToServer ==
    (~hung /\ my_personas_fetched /\ ~my_personas_pending /\ client_events = <<>>)
       => /\ {my_personas[i] : i \in 1..Len(my_personas)}
                = {server_personas[i] : i \in 1..Len(server_personas)}
          /\ \A i, j \in 1..Len(my_personas) :
                my_personas[i].id = my_personas[j].id => i = j

-----------------------------------------------------------------------------
(***************************************************************************)
(* Properties of the whisper recipient input (SpecWhisper).                *)
(***************************************************************************)

TypeOK ==
    /\ current_compose_persona_id \in PersonaIds \cup {Null}
    /\ selector_visible \in BOOLEAN
    /\ Len(client_events) <= MaxInFlight

=============================================================================
